---- MODULE Spec2Model ----
(***************************************************************************)
(* Model of the TokenSaleWithTokenizedVesting contract (src/src/lib.rs):   *)
(* a fixed-price token sale with optional linear vesting and optional      *)
(* delegation of the claim right to the owner of an ERC721 token.          *)
(*                                                                         *)
(* Storage fields keep the names of the sol_storage! block.  Every public  *)
(* method is one action; the action covers the whole call, the external    *)
(* ERC20 / ERC721 calls it makes included.  The answers of the external    *)
(* contracts are inputs of the action.  A call that returns Err reverts:   *)
(* the Stylus entrypoint discards every storage write of the call, so a    *)
(* failing call leaves the storage as it was; the history variable         *)
(* reverted names the method of the last step when it returned             *)
(* TransferFailed.  The error a call would return in a state is an         *)
(* operator of that state (<method>_result).                               *)
(*                                                                         *)
(* U256 arithmetic (+, -, * of ruint) wraps modulo 2^BITS.  TLC's integers *)
(* are 32 bit wide, so the word is modelled with WordBits = 30 bits and    *)
(* the fixed-point factor 1e12 of the unlock rate with 1e3; the wrapping   *)
(* operators below never form an intermediate value of 2^31 or more.       *)
(* Addresses are naturals, 0 being Address::default().  Timestamps are     *)
(* seconds.                                                                *)
(***************************************************************************)
EXTENDS Integers, Naturals, FiniteSets, Sequences, TLC

\* ------------------------------------------------------------ constants

\* const MIN_VESTING_LENGTH: i32 = 86_400
MIN_VESTING_LENGTH == 86400

\* const MAX_VESTING_LENGTH: i32 = 31_536_000
MAX_VESTING_LENGTH == 31536000

\* Address::default()
ZeroAddress == 0

\* Width of the modelled U256 word.
WordBits == 30

\* U256 values are 0 .. Modulus - 1.
Modulus == 2^WordBits

\* U256::from(1e12), the fixed-point factor of the unlock rate, shrunk with
\* the word (1e12 : 2^256 becomes 1e3 : 2^30).
RateScale == 1000

\* ------------------------------------------------------ bounds and inputs

\* Largest ERC721 token id offered to enable_tokenized_vesting.
MaxTokenId == 1

\* Externally owned accounts that call the contract.
Accounts == {1, 2}

\* Block timestamps the calls happen at.
Times == {0, 50000, 100000}

\* Arguments init accepts, as <<token, currency, price_per_token,
\* total_tokens_available, total_vesting_length_in_seconds, nft_claim>>.
GoodInitArgs ==
    { <<11, 12, 10, 1000, 0, 13>>,
      <<11, 12, 10, 1000, 100000, 13>>,
      <<11, 12, 10, 500000, MIN_VESTING_LENGTH, 13>>,
      <<11, 12, 10, 500000, 200000, 13>> }

\* Arguments init rejects: one for each of its validations.
BadInitArgs ==
    { <<11, 12, 0, 1000, 100000, 13>>,
      <<ZeroAddress, 12, 10, 1000, 100000, 13>>,
      <<11, ZeroAddress, 10, 1000, 100000, 13>>,
      <<11, 12, 10, 0, 100000, 13>>,
      <<11, 12, 10, 1000, MIN_VESTING_LENGTH - 1, 13>>,
      <<11, 12, 10, 1000, MAX_VESTING_LENGTH + 1, 13>>,
      <<11, 12, 10, 1000, 100000, ZeroAddress>> }

\* The init calls offered, as <<sender, arguments>>: one account with every
\* argument list, the other with one that is accepted.
InitCalls ==
    ({1} \X (GoodInitArgs \cup BadInitArgs)) \cup {<<2, <<11, 12, 10, 1000, 0, 13>>>>}

\* Amounts offered to purchase_tokens.
AmountArgs == {0, 50, 250000, Modulus - 50}

TokenIds == 0 .. MaxTokenId

\* Outcomes of an external ERC20 call: Ok(true), Ok(false), Err(_).
TransferResults == {"true", "false", "err"}

\* The Err(_) outcome of IERC721.ownerOf.
OwnerOfErr == -1

\* Outcomes of IERC721.ownerOf: Ok(address) for an account, or Err(_).
OwnerOfResults == Accounts \cup {OwnerOfErr}

\* ------------------------------------------------------- U256 arithmetic

\* U256 + U256 (wrapping_add)
AddMod(a, b) == (a + b) % Modulus

\* U256 - U256 (wrapping_sub)
SubMod(a, b) == (a - b + Modulus) % Modulus

\* U256 * U256 (wrapping_mul), by doubling
RECURSIVE MulMod(_, _)
MulMod(a, b) ==
    IF b = 0 THEN 0
    ELSE LET h == MulMod(a, b \div 2)
             d == (2 * h) % Modulus
         IN IF b % 2 = 1 THEN (d + a) % Modulus ELSE d

\* i32::pow
RECURSIVE Pow(_, _)
Pow(b, e) == IF e = 0 THEN 1 ELSE b * Pow(b, e - 1)

\* ------------------------------------------------------------------ state

VARIABLES
    initialized,                      \* bool initialized
    owner,                            \* address owner
    token,                            \* address token
    currency,                         \* address currency
    price_per_token,                  \* uint256 price_per_token
    total_tokens_available,           \* uint256 total_tokens_available
    total_vesting_length_in_seconds,  \* uint256 total_vesting_length_in_seconds
    nft_claim,                        \* address nft_claim
    total_tokens_purchased,           \* uint256 total_tokens_purchased
    tokens_purchased,                 \* mapping(address => uint256)
    tokens_purchased_at,              \* mapping(address => uint256)
    tokens_claimed,                   \* mapping(address => uint256)
    tokens_claimed_at,                \* mapping(address => uint256)
    nft_claim_token_id,               \* mapping(address => uint256)
    now,                              \* block::timestamp()
    last,                             \* history: the last call that returned Ok
    has_purchased,                    \* history: the account's purchase_tokens has returned Ok
    paid_out,                         \* history: units sent by the claims, per purchaser
    reverted                          \* history: the method called in the last step, if it returned TransferFailed

config == <<initialized, owner, token, currency, price_per_token,
            total_tokens_available, total_vesting_length_in_seconds, nft_claim>>

ledger == <<total_tokens_purchased, tokens_purchased, tokens_purchased_at,
            tokens_claimed, tokens_claimed_at, nft_claim_token_id>>

history == <<last, has_purchased, paid_out, reverted>>

\* What a call leaves as it was unless it returns Ok: the storage and the
\* record of the calls that returned Ok.
kept == <<config, ledger, last, has_purchased, paid_out>>

vars == <<config, ledger, now, history>>

\* The record of a call that returned Ok: the method, msg::sender(), the
\* purchaser it was about, its U256 argument, the address
\* validate_sender_owns_nft compared the sender with (ZeroAddress when the
\* method does not call it), and the ERC20 call it made:
\* transfer(recipient, amount) of the token, or
\* transferFrom(sender, recipient, amount) of the currency.
Call(op, sender, user, arg, owner_of, recipient, amount) ==
    [op |-> op, sender |-> sender, user |-> user, arg |-> arg,
     owner_of |-> owner_of, recipient |-> recipient, amount |-> amount]

NoCall == [op |-> "none", sender |-> ZeroAddress, user |-> ZeroAddress, arg |-> 0,
           owner_of |-> ZeroAddress, recipient |-> ZeroAddress, amount |-> 0]

\* The last step was not a call that returned TransferFailed.
NoRevert == "none"

\* What a call of method op leaves in reverted when it returns result.
Reverted(op, result) ==
    IF result = "TransferFailed" THEN op ELSE NoRevert

\* Variant of persisted: the storage writes of a failing call are kept.
persisted_always(result) == TRUE

\* The entrypoint keeps the storage writes of a call that returns Ok and
\* discards those of a call that returns Err (the call reverts).
persisted(result) == result = "Ok"

\* A call that returns an error of its checks: nothing is written.
Rejected ==
    /\ reverted' = NoRevert
    /\ UNCHANGED <<kept, now>>

\* A call of method op that returns the error result after its writes: the
\* writes are discarded.
Discarded(op, result) ==
    /\ reverted' = Reverted(op, result)
    /\ UNCHANGED <<kept, now>>

\* Storage after construction: every slot is zero.
Init ==
    /\ initialized = FALSE
    /\ owner = ZeroAddress
    /\ token = ZeroAddress
    /\ currency = ZeroAddress
    /\ price_per_token = 0
    /\ total_tokens_available = 0
    /\ total_vesting_length_in_seconds = 0
    /\ nft_claim = ZeroAddress
    /\ total_tokens_purchased = 0
    /\ tokens_purchased = [a \in Accounts |-> 0]
    /\ tokens_purchased_at = [a \in Accounts |-> 0]
    /\ tokens_claimed = [a \in Accounts |-> 0]
    /\ tokens_claimed_at = [a \in Accounts |-> 0]
    /\ nft_claim_token_id = [a \in Accounts |-> 0]
    /\ now = 0
    /\ last = NoCall
    /\ has_purchased = [a \in Accounts |-> FALSE]
    /\ paid_out = [a \in Accounts |-> 0]
    /\ reverted = NoRevert

\* ------------------------------------------------------------- validation

\* validate_is_initialized
validate_is_initialized ==
    IF ~initialized THEN "NotInitialized" ELSE "Ok"

\* Variant of validate_initialization: the flag is not looked at.
validate_initialization_open == "Ok"

\* validate_initialization
validate_initialization ==
    IF initialized THEN "AlreadyInitialized" ELSE "Ok"

\* validate_price_per_token
validate_price_per_token(price) ==
    IF price = 0 THEN "ZeroValueArgumentInjected" ELSE "Ok"

\* validate_address
validate_address(value) ==
    IF value = ZeroAddress THEN "ZeroValueArgumentInjected" ELSE "Ok"

\* validate_total_tokens_for_sale
validate_total_tokens_for_sale(total_tokens) ==
    IF total_tokens = 0 THEN "ZeroValueArgumentInjected" ELSE "Ok"

\* validate_vesting_length
validate_vesting_length(vesting_length) ==
    IF vesting_length # 0 /\ vesting_length < MIN_VESTING_LENGTH
    THEN "VestingLengthTooShort"
    ELSE IF vesting_length # 0 /\ vesting_length > MAX_VESTING_LENGTH
    THEN "VestingLengthTooLong"
    ELSE "Ok"

\* validate_vesting_enabled (the error; the length is read from storage)
validate_vesting_enabled ==
    IF total_vesting_length_in_seconds = 0 THEN "VestingNotEnabled" ELSE "Ok"

\* The address validate_sender_owns_nft compares msg::sender() with:
\* Ok(owner) => owner, Err(_) => Address::default().
nft_owner(answer) == IF answer = OwnerOfErr THEN ZeroAddress ELSE answer

\* Variant of validate_sender_owns_nft: a failing ownerOf query is let through.
validate_sender_owns_nft_lenient(sender, answer) ==
    IF answer # OwnerOfErr /\ answer # sender THEN "OnlyOwner" ELSE "Ok"

\* validate_sender_owns_nft
validate_sender_owns_nft(sender, answer) ==
    IF nft_owner(answer) # sender THEN "OnlyOwner" ELSE "Ok"

\* The ? chain: the first error of a sequence of results, "Ok" if none.
RECURSIVE FirstError(_)
FirstError(results) ==
    IF results = <<>> THEN "Ok"
    ELSE IF Head(results) # "Ok" THEN Head(results)
    ELSE FirstError(Tail(results))

\* Variant of transfer_outcome: an answer of false is taken for a success.
transfer_outcome_lenient(result) ==
    IF result = "err" THEN "TransferFailed" ELSE "Ok"

\* Ok(true) => Ok(()), Ok(false) and Err(_) => Err(TransferFailed)
transfer_outcome(result) ==
    IF result = "true" THEN "Ok" ELSE "TransferFailed"

\* ---------------------------------------------------------------- methods

\* What init returns: the validations in order.
init_result(tok, cur, price, total, vesting, nft) ==
    FirstError(<<validate_initialization,
                 validate_price_per_token(price),
                 validate_address(tok),
                 validate_address(cur),
                 validate_total_tokens_for_sale(total),
                 validate_vesting_length(vesting),
                 validate_address(nft)>>)

\* pub fn init
init(sender, tok, cur, price, total, vesting, nft) ==
    IF init_result(tok, cur, price, total, vesting, nft) = "Ok"
    THEN /\ initialized' = TRUE
         /\ owner' = sender
         /\ token' = tok
         /\ currency' = cur
         /\ price_per_token' = price
         /\ total_tokens_available' = total
         /\ total_vesting_length_in_seconds' = vesting
         /\ nft_claim' = nft
         /\ last' = Call("init", sender, sender, price, ZeroAddress, ZeroAddress, 0)
         /\ reverted' = NoRevert
         /\ UNCHANGED <<ledger, now, has_purchased, paid_out>>
    ELSE Rejected

\* amount * U256::from(1_i32.pow(18))
purchase_amount(amount) == MulMod(amount, Pow(1, 18))

\* total_tokens_purchased + purchase_amount > total_tokens_available
sold_out(amount) ==
    AddMod(total_tokens_purchased, purchase_amount(amount)) > total_tokens_available

\* Variant of purchase_error: the cap is checked before the one-purchase rule.
purchase_error_cap_first(sender, amount) ==
    IF validate_is_initialized # "Ok" THEN validate_is_initialized
    ELSE IF sold_out(amount) THEN "SoldOut"
    ELSE IF tokens_purchased[sender] > 0 THEN "OnlyOnePurchase"
    ELSE "Ok"

\* The checks of purchase_tokens before its writes.
purchase_error(sender, amount) ==
    IF validate_is_initialized # "Ok" THEN validate_is_initialized
    ELSE IF tokens_purchased[sender] > 0 THEN "OnlyOnePurchase"
    ELSE IF sold_out(amount) THEN "SoldOut"
    ELSE "Ok"

\* What purchase_tokens returns when currency.transferFrom answers
\* transfer_result.
purchase_tokens_result(sender, amount, transfer_result) ==
    FirstError(<<purchase_error(sender, amount), transfer_outcome(transfer_result)>>)

\* pub fn purchase_tokens; currency.transferFrom is called, and answers, once
\* the checks have passed.
purchase_tokens(sender, amount) ==
    IF purchase_error(sender, amount) # "Ok" THEN Rejected
    ELSE \E transfer_result \in TransferResults :
    IF persisted(purchase_tokens_result(sender, amount, transfer_result))
    THEN /\ tokens_purchased' =
                [tokens_purchased EXCEPT ![sender] = purchase_amount(amount)]
         /\ tokens_purchased_at' = [tokens_purchased_at EXCEPT ![sender] = now]
         /\ total_tokens_purchased' =
                AddMod(total_tokens_purchased, purchase_amount(amount))
         /\ last' = Call("purchase_tokens", sender, sender, amount, ZeroAddress, owner,
                         MulMod(amount, price_per_token))
         /\ has_purchased' = [has_purchased EXCEPT ![sender] = TRUE]
         /\ reverted' = Reverted("purchase_tokens",
                    purchase_tokens_result(sender, amount, transfer_result))
         /\ UNCHANGED <<config, tokens_claimed, tokens_claimed_at,
                        nft_claim_token_id, now, paid_out>>
    ELSE Discarded("purchase_tokens",
                   purchase_tokens_result(sender, amount, transfer_result))

\* Variant of enable_tokenized_vesting_result: the AlreadyTokenized check is
\* missing.
enable_tokenized_vesting_result_repeatable(sender, token_id) ==
    IF validate_vesting_enabled # "Ok" THEN validate_vesting_enabled
    ELSE IF tokens_purchased[sender] = 0 THEN "NoTokensVested"
    ELSE IF token_id = 0 THEN "ZeroValueArgumentInjected"
    ELSE IF tokens_claimed[sender] = tokens_purchased[sender] THEN "AllTokensClaimed"
    ELSE "Ok"

\* Variant of enable_tokenized_vesting_result: the check that the sender has
\* purchased is missing.
enable_tokenized_vesting_result_unpurchased(sender, token_id) ==
    IF validate_vesting_enabled # "Ok" THEN validate_vesting_enabled
    ELSE IF nft_claim_token_id[sender] # 0 THEN "AlreadyTokenized"
    ELSE IF token_id = 0 THEN "ZeroValueArgumentInjected"
    ELSE "Ok"

\* What enable_tokenized_vesting returns.
enable_tokenized_vesting_result(sender, token_id) ==
    IF validate_vesting_enabled # "Ok" THEN validate_vesting_enabled
    ELSE IF tokens_purchased[sender] = 0 THEN "NoTokensVested"
    ELSE IF nft_claim_token_id[sender] # 0 THEN "AlreadyTokenized"
    ELSE IF token_id = 0 THEN "ZeroValueArgumentInjected"
    ELSE IF tokens_claimed[sender] = tokens_purchased[sender] THEN "AllTokensClaimed"
    ELSE "Ok"

\* pub fn enable_tokenized_vesting
enable_tokenized_vesting(sender, token_id) ==
    IF enable_tokenized_vesting_result(sender, token_id) = "Ok"
    THEN /\ nft_claim_token_id' = [nft_claim_token_id EXCEPT ![sender] = token_id]
         /\ last' = Call("enable_tokenized_vesting", sender, sender, token_id,
                         ZeroAddress, ZeroAddress, 0)
         /\ reverted' = NoRevert
         /\ UNCHANGED <<config, total_tokens_purchased, tokens_purchased,
                        tokens_purchased_at, tokens_claimed, tokens_claimed_at,
                        now, has_purchased, paid_out>>
    ELSE Rejected

\* tokens_purchased_at + total_vesting_length_in_seconds
last_token_claim_at(user) ==
    AddMod(tokens_purchased_at[user], total_vesting_length_in_seconds)

\* Variant of last_user_claim_timestamp: the elapsed time is always counted
\* from the purchase.
last_user_claim_timestamp_from_purchase(user) == tokens_purchased_at[user]

\* The baseline of the elapsed time: the purchase time until something has
\* been claimed, the last claim time afterwards.
last_user_claim_timestamp(user) ==
    IF tokens_claimed[user] = 0 THEN tokens_purchased_at[user]
    ELSE tokens_claimed_at[user]

\* Variant of tokens_per_second_to_claim: the rate is rounded up.
tokens_per_second_to_claim_rounded_up(user) ==
    ((MulMod(tokens_purchased[user], RateScale)
        \div total_vesting_length_in_seconds) \div RateScale) + 1

\* ((tokens_purchased_by_user * 1e12) / total_vesting_length_in_seconds) / 1e12
tokens_per_second_to_claim(user) ==
    (MulMod(tokens_purchased[user], RateScale)
        \div total_vesting_length_in_seconds) \div RateScale

\* time_since_last_claim * tokens_per_second_to_claim
transfer_amount(user) ==
    MulMod(SubMod(now, last_user_claim_timestamp(user)),
           tokens_per_second_to_claim(user))

\* The checks of claim_tokens_from_user before its writes.
claim_error(user) ==
    IF validate_vesting_enabled # "Ok" THEN validate_vesting_enabled
    ELSE IF tokens_purchased[user] = 0 THEN "NoTokensVested"
    ELSE IF tokens_claimed[user] = tokens_purchased[user] THEN "AllTokensClaimed"
    ELSE "Ok"

\* Variant of claim_release: the last claim time is the block timestamp in
\* both branches.
claim_release_unclamped(user) ==
    IF now >= last_token_claim_at(user)
    THEN [claimed |-> tokens_purchased[user],
          claimed_at |-> now,
          amount |-> SubMod(tokens_purchased[user], tokens_claimed[user])]
    ELSE [claimed |-> AddMod(tokens_claimed[user], transfer_amount(user)),
          claimed_at |-> now,
          amount |-> transfer_amount(user)]

\* Variant of claim_release: a partial claim does not move the last claim
\* time.
claim_release_stale_timestamp(user) ==
    IF now >= last_token_claim_at(user)
    THEN [claimed |-> tokens_purchased[user],
          claimed_at |-> last_token_claim_at(user),
          amount |-> SubMod(tokens_purchased[user], tokens_claimed[user])]
    ELSE [claimed |-> AddMod(tokens_claimed[user], transfer_amount(user)),
          claimed_at |-> tokens_claimed_at[user],
          amount |-> transfer_amount(user)]

\* Variant of claim_release: at the full unlock the last claim time is set to
\* the purchase time.
claim_release_clamped_to_purchase(user) ==
    IF now >= last_token_claim_at(user)
    THEN [claimed |-> tokens_purchased[user],
          claimed_at |-> tokens_purchased_at[user],
          amount |-> SubMod(tokens_purchased[user], tokens_claimed[user])]
    ELSE [claimed |-> AddMod(tokens_claimed[user], transfer_amount(user)),
          claimed_at |-> now,
          amount |-> transfer_amount(user)]

\* What claim_tokens_from_user writes and sends once its checks have passed:
\* everything that is left at or after the end of the vesting, the tranche
\* unlocked since the last claim before it.
claim_release(user) ==
    IF now >= last_token_claim_at(user)
    THEN [claimed |-> tokens_purchased[user],
          claimed_at |-> last_token_claim_at(user),
          amount |-> SubMod(tokens_purchased[user], tokens_claimed[user])]
    ELSE [claimed |-> AddMod(tokens_claimed[user], transfer_amount(user)),
          claimed_at |-> now,
          amount |-> transfer_amount(user)]

\* What claim_tokens_from_user returns when token.transfer answers
\* transfer_result.
claim_tokens_from_user_result(user, transfer_result) ==
    FirstError(<<claim_error(user), transfer_outcome(transfer_result)>>)

\* fn claim_tokens_from_user, entered by method op once the check of that
\* method (gate) has passed; token.transfer is called, and answers, once the
\* checks have passed.
claim_tokens_from_user(op, sender, owner_of, gate, user, recipient) ==
    IF FirstError(<<gate, claim_error(user)>>) # "Ok" THEN Rejected
    ELSE \E transfer_result \in TransferResults :
    IF persisted(claim_tokens_from_user_result(user, transfer_result))
    THEN /\ tokens_claimed' =
                [tokens_claimed EXCEPT ![user] = claim_release(user).claimed]
         /\ tokens_claimed_at' =
                [tokens_claimed_at EXCEPT ![user] = claim_release(user).claimed_at]
         /\ last' = Call(op, sender, user, 0, owner_of, recipient,
                         claim_release(user).amount)
         /\ paid_out' =
                [paid_out EXCEPT ![user] = AddMod(@, claim_release(user).amount)]
         /\ reverted' = Reverted(op,
                    claim_tokens_from_user_result(user, transfer_result))
         /\ UNCHANGED <<config, total_tokens_purchased, tokens_purchased,
                        tokens_purchased_at, nft_claim_token_id, now, has_purchased>>
    ELSE Discarded(op, claim_tokens_from_user_result(user, transfer_result))

\* Variant of claim_tokens_gate: the delegation is not looked at.
claim_tokens_gate_open(sender) == "Ok"

\* The check of claim_tokens before it enters claim_tokens_from_user.
claim_tokens_gate(sender) ==
    IF nft_claim_token_id[sender] # 0 THEN "AlreadyTokenized" ELSE "Ok"

\* What claim_tokens returns.
claim_tokens_result(sender, transfer_result) ==
    FirstError(<<claim_tokens_gate(sender),
                 claim_tokens_from_user_result(sender, transfer_result)>>)

\* pub fn claim_tokens
claim_tokens(sender) ==
    claim_tokens_from_user("claim_tokens", sender, ZeroAddress,
                           claim_tokens_gate(sender), sender, sender)

\* What claim_tokens_by_nft returns when nft_claim.ownerOf answers `answer`
\* for nft_claim_token_id[user].
claim_tokens_by_nft_result(sender, user, answer, transfer_result) ==
    FirstError(<<validate_sender_owns_nft(sender, answer),
                 claim_tokens_from_user_result(user, transfer_result)>>)

\* pub fn claim_tokens_by_nft; answer is what nft_claim.ownerOf returns for
\* nft_claim_token_id[user].
claim_tokens_by_nft(sender, user, answer) ==
    claim_tokens_from_user("claim_tokens_by_nft", sender, nft_owner(answer),
                           validate_sender_owns_nft(sender, answer),
                           user, sender)

\* Variant of claim_unlocked_error: the check that nothing has been claimed
\* is missing.
claim_unlocked_error_repeatable(sender) ==
    IF total_vesting_length_in_seconds # 0 THEN "TokensAreVested"
    ELSE IF tokens_purchased[sender] = 0 THEN "NoTokensPurchased"
    ELSE "Ok"

\* The checks of claim_unlocked_tokens before its writes.
claim_unlocked_error(sender) ==
    IF total_vesting_length_in_seconds # 0 THEN "TokensAreVested"
    ELSE IF tokens_claimed[sender] # 0 THEN "AllTokensClaimed"
    ELSE IF tokens_purchased[sender] = 0 THEN "NoTokensPurchased"
    ELSE "Ok"

\* What claim_unlocked_tokens returns when token.transfer answers
\* transfer_result.
claim_unlocked_tokens_result(sender, transfer_result) ==
    FirstError(<<claim_unlocked_error(sender), transfer_outcome(transfer_result)>>)

\* pub fn claim_unlocked_tokens; token.transfer is called, and answers, once
\* the checks have passed.
claim_unlocked_tokens(sender) ==
    IF claim_unlocked_error(sender) # "Ok" THEN Rejected
    ELSE \E transfer_result \in TransferResults :
    IF persisted(claim_unlocked_tokens_result(sender, transfer_result))
    THEN /\ tokens_claimed' =
                [tokens_claimed EXCEPT ![sender] = tokens_purchased[sender]]
         /\ tokens_claimed_at' = [tokens_claimed_at EXCEPT ![sender] = now]
         /\ last' = Call("claim_unlocked_tokens", sender, sender, 0, ZeroAddress, sender,
                         tokens_purchased[sender])
         /\ paid_out' =
                [paid_out EXCEPT ![sender] = AddMod(@, tokens_purchased[sender])]
         /\ reverted' = Reverted("claim_unlocked_tokens",
                    claim_unlocked_tokens_result(sender, transfer_result))
         /\ UNCHANGED <<config, total_tokens_purchased, tokens_purchased,
                        tokens_purchased_at, nft_claim_token_id, now, has_purchased>>
    ELSE Discarded("claim_unlocked_tokens",
                   claim_unlocked_tokens_result(sender, transfer_result))

\* The block timestamp moves forward between calls.
Tick ==
    /\ \E t \in Times : t > now /\ now' = t
    /\ reverted' = NoRevert
    /\ UNCHANGED <<config, ledger, last, has_purchased, paid_out>>

\* ----------------------------------------------------------- specification

Next ==
    \/ \E call \in InitCalls :
            init(call[1], call[2][1], call[2][2], call[2][3], call[2][4],
                 call[2][5], call[2][6])
    \/ \E sender \in Accounts, amount \in AmountArgs :
            purchase_tokens(sender, amount)
    \/ \E sender \in Accounts, token_id \in TokenIds :
            enable_tokenized_vesting(sender, token_id)
    \/ \E sender \in Accounts :
            claim_tokens(sender)
    \/ \E sender \in Accounts, user \in Accounts, answer \in OwnerOfResults :
            claim_tokens_by_nft(sender, user, answer)
    \/ \E sender \in Accounts :
            claim_unlocked_tokens(sender)
    \/ Tick

Spec == Init /\ [][Next]_vars

\* ------------------------------------------------------------------ claims

ClaimOps == {"claim_tokens", "claim_tokens_by_nft"}

\* The step is a call of method op that returned Ok (every such call writes
\* its record to last; the clock moves only between calls).
Returned(op) == last'.op = op /\ now' = now /\ kept' # kept

\* The step is a call of claim_tokens or claim_tokens_by_nft for purchaser
\* user that returned Ok.
ClaimedFor(user) ==
    last'.op \in ClaimOps /\ last'.user = user /\ now' = now /\ kept' # kept

\* C1: in every reachable state every account has claimed at most what it
\* purchased.
C1_ClaimedAtMostPurchased ==
    \A a \in Accounts : tokens_claimed[a] <= tokens_purchased[a]

\* C1 witness: a partial claim has released part of an allocation.
C1_Witness ==
    \E a \in Accounts :
        /\ last.op \in ClaimOps /\ last.user = a /\ last.amount > 0
        /\ 0 < tokens_claimed[a] /\ tokens_claimed[a] < tokens_purchased[a]

\* C2: the total purchased never exceeds the total offered, a purchase that
\* fills the cap exactly is accepted, and no purchase with
\* totalUnitsPurchased + amount > totalUnitsOffered goes through.
C2_CapEnforced ==
    /\ [](total_tokens_purchased <= total_tokens_available)
    /\ [](\A a \in Accounts, amount \in AmountArgs :
            (/\ initialized
             /\ tokens_purchased[a] = 0
             /\ total_tokens_purchased + amount = total_tokens_available)
            => purchase_tokens_result(a, amount, "true") = "Ok")
    /\ [][Returned("purchase_tokens")
            => total_tokens_purchased + last'.arg <= total_tokens_available]_vars

\* C3: the scenario unitPrice = 10, totalUnitsOffered = 1000,
\* vestingSeconds = 100000: A purchases 50 at t = 0 for a cost of 500; the
\* claim of A at t = 50000 releases 25 units and leaves unitsClaimed = 25; the
\* claim at t = 100000 leaves unitsClaimed = 50 and lastClaimTimestamp =
\* 100000; every later claim fails with AllTokensClaimed.
C3_Scenario ==
    \A a \in Accounts :
        (/\ price_per_token = 10
         /\ total_tokens_available = 1000
         /\ total_vesting_length_in_seconds = 100000
         /\ tokens_purchased[a] = 50
         /\ tokens_purchased_at[a] = 0)
        =>
        /\ (last.op = "purchase_tokens" /\ last.sender = a) => last.amount = 500
        /\ (last.op = "claim_tokens" /\ last.user = a /\ now = 50000
                /\ tokens_claimed_at[a] = 50000)
            => (last.amount = 25 /\ tokens_claimed[a] = 25)
        /\ (last.op = "claim_tokens" /\ last.user = a /\ now = 100000
                /\ tokens_claimed_at[a] = 100000)
            => (tokens_claimed[a] = 50
                /\ \A r \in TransferResults :
                       claim_tokens_result(a, r) = "AllTokensClaimed")

\* C4: the claim bookkeeping of a purchaser P changes, and units of P are
\* released, only in a call made by P or in a claim_tokens_by_nft(P) made by
\* the owner of the token P designated; never in a call of another account
\* while P has designated no token.
C4_OnlyOwnerOrDelegate ==
    [][\A P \in Accounts :
         (/\ now' = now
          /\ \/ tokens_claimed'[P] # tokens_claimed[P]
             \/ tokens_claimed_at'[P] # tokens_claimed_at[P]
             \/ paid_out'[P] # paid_out[P])
         => \/ last'.sender = P
            \/ /\ nft_claim_token_id[P] # 0
               /\ last'.op = "claim_tokens_by_nft"
               /\ last'.user = P
               /\ last'.owner_of = last'.sender]_vars

\* C5: for a purchaser P that designated token k # 0, claim_tokens_by_nft(P)
\* by c returns OnlyOwner (and so changes nothing) whenever ownerOf(k) answers
\* another address than c or fails; a call that returns Ok was made by the
\* owner ownerOf reported, sends the released units to that caller and books
\* them against P alone.
C5_DelegateMustOwnToken ==
    /\ [](\A P \in Accounts, c \in Accounts, answer \in OwnerOfResults,
             r \in TransferResults :
            (nft_claim_token_id[P] # 0 /\ (answer = OwnerOfErr \/ answer # c))
            => claim_tokens_by_nft_result(c, P, answer, r) = "OnlyOwner")
    /\ [][\A P \in Accounts :
            (nft_claim_token_id[P] # 0 /\ Returned("claim_tokens_by_nft")
                /\ last'.user = P)
            => /\ last'.owner_of = last'.sender
               /\ last'.recipient = last'.sender
               /\ tokens_claimed'[P] = tokens_claimed[P] + last'.amount
               /\ paid_out'[P] = paid_out[P] + last'.amount
               /\ \A a \in Accounts \ {P} :
                    /\ tokens_claimed'[a] = tokens_claimed[a]
                    /\ tokens_claimed_at'[a] = tokens_claimed_at[a]
                    /\ paid_out'[a] = paid_out[a]]_vars

\* C5 witness: the owner of the designated token, not the purchaser, has
\* claimed units of the purchaser.
C5_Witness ==
    /\ last.op = "claim_tokens_by_nft"
    /\ last.sender # last.user
    /\ nft_claim_token_id[last.user] # 0
    /\ last.recipient = last.sender
    /\ last.amount > 0

\* C6: once an account has designated a token, it stays designated, every
\* claim_tokens call of the account returns AlreadyTokenized, and none
\* returns Ok: also after the full unlock.
C6_NoDirectClaimAfterDelegation ==
    /\ [](\A a \in Accounts, r \in TransferResults :
            nft_claim_token_id[a] # 0
            => claim_tokens_result(a, r) = "AlreadyTokenized")
    /\ [][\A a \in Accounts :
            nft_claim_token_id[a] # 0
            => /\ nft_claim_token_id'[a] # 0
               /\ ~(Returned("claim_tokens") /\ last'.sender = a)]_vars

\* C6 witness: a delegated account with units left, after its full unlock,
\* whose claim_tokens call is refused for the delegation.
C6_Witness ==
    \E a \in Accounts :
        /\ nft_claim_token_id[a] # 0
        /\ now > tokens_purchased_at[a] + total_vesting_length_in_seconds
        /\ tokens_claimed[a] < tokens_purchased[a]
        /\ claim_tokens_result(a, "true") = "AlreadyTokenized"

\* C7: a designated token id is never changed, and every
\* enable_tokenized_vesting call of an account that has designated a token
\* returns AlreadyTokenized, whatever id is passed and whatever was claimed.
C7_DelegationIsOneTime ==
    /\ [](\A a \in Accounts, token_id \in TokenIds :
            nft_claim_token_id[a] # 0
            => enable_tokenized_vesting_result(a, token_id) = "AlreadyTokenized")
    /\ [][\A a \in Accounts :
            nft_claim_token_id[a] # 0
            => nft_claim_token_id'[a] = nft_claim_token_id[a]]_vars

\* C7 witness: an account that has designated a token and whose whole
\* allocation has been claimed since.
C7_Witness ==
    \E a \in Accounts :
        /\ nft_claim_token_id[a] # 0
        /\ tokens_claimed[a] = tokens_purchased[a]
        /\ last.op = "claim_tokens_by_nft" /\ last.user = a

\* A claim that returns Ok at or after purchaseTimestamp + vestingSeconds
\* releases unitsPurchased - unitsClaimed, sets unitsClaimed = unitsPurchased
\* and lastClaimTimestamp = purchaseTimestamp + vestingSeconds.
FullUnlockRelease ==
    \A P \in Accounts :
        (/\ ClaimedFor(P)
         /\ tokens_claimed[P] < tokens_purchased[P]
         /\ now >= tokens_purchased_at[P] + total_vesting_length_in_seconds)
        => /\ last'.amount = tokens_purchased[P] - tokens_claimed[P]
           /\ tokens_claimed'[P] = tokens_purchased[P]
           /\ tokens_claimed_at'[P] =
                  tokens_purchased_at[P] + total_vesting_length_in_seconds

\* C8 as stated: the release at full unlock, and afterwards every claim for
\* the purchaser, direct or as the owner of the token, returns
\* AllTokensClaimed.
C8_EveryLaterClaimIsAllTokensClaimed ==
    /\ [][FullUnlockRelease]_vars
    /\ [](\A P \in Accounts, r \in TransferResults :
            (/\ total_vesting_length_in_seconds > 0
             /\ tokens_purchased[P] > 0
             /\ tokens_claimed[P] = tokens_purchased[P])
            => /\ claim_tokens_result(P, r) = "AllTokensClaimed"
               /\ \A c \in Accounts :
                    claim_tokens_by_nft_result(c, P, c, r) = "AllTokensClaimed")

\* C8 amended: the release at full unlock, and afterwards no claim for the
\* purchaser returns Ok: claim_tokens returns AlreadyTokenized when the
\* purchaser has designated a token and AllTokensClaimed otherwise,
\* claim_tokens_by_nft returns OnlyOwner to a caller ownerOf does not report
\* and AllTokensClaimed to the one it reports.
C8_FullUnlockThenNoClaim ==
    /\ [][FullUnlockRelease]_vars
    /\ [](\A P \in Accounts, r \in TransferResults :
            (/\ total_vesting_length_in_seconds > 0
             /\ tokens_purchased[P] > 0
             /\ tokens_claimed[P] = tokens_purchased[P])
            => /\ claim_tokens_result(P, r) =
                    (IF nft_claim_token_id[P] # 0 THEN "AlreadyTokenized"
                     ELSE "AllTokensClaimed")
               /\ \A c \in Accounts, answer \in OwnerOfResults :
                    claim_tokens_by_nft_result(c, P, answer, r) =
                        (IF answer = c THEN "AllTokensClaimed" ELSE "OnlyOwner"))

\* C8 witness: a claim made after the end of the vesting has released what
\* was left after an earlier partial claim, and the last claim time is the
\* end of the vesting, not the time of the call.
C8_Witness ==
    \E P \in Accounts :
        /\ last.op \in ClaimOps /\ last.user = P
        /\ 0 < last.amount /\ last.amount < tokens_purchased[P]
        /\ tokens_claimed[P] = tokens_purchased[P]
        /\ tokens_claimed_at[P] =
               tokens_purchased_at[P] + total_vesting_length_in_seconds
        /\ now > tokens_claimed_at[P]

\* C9: every purchase_tokens call of an account with unitsPurchased > 0
\* returns OnlyOnePurchase, whatever the amount and also when the cap would be
\* exceeded, and a non-zero unitsPurchased never changes.
C9_OnlyOnePurchase ==
    /\ [](\A a \in Accounts, amount \in AmountArgs, r \in TransferResults :
            tokens_purchased[a] > 0
            => purchase_tokens_result(a, amount, r) = "OnlyOnePurchase")
    /\ [][\A a \in Accounts :
            tokens_purchased[a] # 0
            => tokens_purchased'[a] = tokens_purchased[a]]_vars

\* C9 witness: an account has purchased, and a further purchase of it would
\* also exceed the cap.
C9_Witness ==
    \E a \in Accounts, amount \in AmountArgs :
        /\ last.op = "purchase_tokens" /\ last.sender = a
        /\ tokens_purchased[a] > 0
        /\ total_tokens_purchased + amount > total_tokens_available
        /\ purchase_tokens_result(a, amount, "true") = "OnlyOnePurchase"

\* C10: at most one purchase_tokens call per account returns Ok, whatever
\* amount the first one was for (0 included), and the purchase timestamp of
\* an account that has purchased never changes.
C10_AtMostOnePurchasePerAccount ==
    [][\A a \in Accounts :
         has_purchased[a]
         => /\ ~(Returned("purchase_tokens") /\ last'.sender = a)
            /\ tokens_purchased_at'[a] = tokens_purchased_at[a]]_vars

\* The answers of an ERC20 call that report a failure: Ok(false) and Err(_).
FailedTransfers == TransferResults \ {"true"}

\* C11: whenever the checks of purchase_tokens pass and the payment pull
\* answers false or fails, the call returns TransferFailed; the step of such
\* a call leaves the configuration and the whole ledger (the caller's
\* unitsPurchased and purchaseTimestamp, totalUnitsPurchased) as they were and
\* is not counted as a purchase, so what purchase_tokens returns to an
\* account, a function of the configuration and the ledger, is the same after
\* the call as before.
C11_FailedPaymentLeavesNoPurchase ==
    /\ [](\A a \in Accounts, amount \in AmountArgs, r \in FailedTransfers :
            purchase_error(a, amount) = "Ok"
            => purchase_tokens_result(a, amount, r) = "TransferFailed")
    /\ [][reverted' = "purchase_tokens"
            => /\ tokens_purchased' = tokens_purchased
               /\ tokens_purchased_at' = tokens_purchased_at
               /\ total_tokens_purchased' = total_tokens_purchased
               /\ UNCHANGED <<config, ledger, has_purchased>>]_vars

\* C11 witness: a purchase_tokens call has just returned TransferFailed, and
\* an account that has not purchased can purchase.
C11_Witness ==
    /\ reverted = "purchase_tokens"
    /\ \E a \in Accounts, amount \in AmountArgs :
        /\ amount > 0
        /\ ~has_purchased[a] /\ tokens_purchased[a] = 0 /\ tokens_purchased_at[a] = 0
        /\ purchase_tokens_result(a, amount, "false") = "TransferFailed"
        /\ purchase_tokens_result(a, amount, "true") = "Ok"

\* C12: whenever the checks of a claim (claim_tokens, claim_tokens_by_nft,
\* claim_unlocked_tokens) pass and the asset transfer answers false or fails,
\* the call returns TransferFailed; the step of such a call leaves
\* unitsClaimed and lastClaimTimestamp of every account as they were and sends
\* nothing, and with them the configuration, the ledger and the clock, so
\* what a claim for a purchaser releases, a function of these, is the same
\* after the call as before.
C12_FailedTransferLeavesNoClaim ==
    /\ [](\A P \in Accounts, c \in Accounts, r \in FailedTransfers :
            /\ (claim_tokens_gate(P) = "Ok" /\ claim_error(P) = "Ok")
                => claim_tokens_result(P, r) = "TransferFailed"
            /\ claim_error(P) = "Ok"
                => claim_tokens_by_nft_result(c, P, c, r) = "TransferFailed"
            /\ claim_unlocked_error(P) = "Ok"
                => claim_unlocked_tokens_result(P, r) = "TransferFailed")
    /\ [][reverted' \in ClaimOps \cup {"claim_unlocked_tokens"}
            => /\ tokens_claimed' = tokens_claimed
               /\ tokens_claimed_at' = tokens_claimed_at
               /\ paid_out' = paid_out
               /\ UNCHANGED <<config, ledger, now>>]_vars

\* C12 witness: a claim has just returned TransferFailed, and a claim for a
\* purchaser with units claimed already would release further units.
C12_Witness ==
    /\ reverted \in ClaimOps
    /\ \E P \in Accounts :
        /\ tokens_claimed[P] > 0
        /\ claim_error(P) = "Ok"
        /\ claim_release(P).amount > 0

\* The error of the first precondition of the vesting claim path that fails,
\* in the order: initialized, vesting enabled, units purchased, units left.
ClaimPreconditions(P) ==
    IF ~initialized THEN "NotInitialized"
    ELSE IF total_vesting_length_in_seconds = 0 THEN "VestingNotEnabled"
    ELSE IF tokens_purchased[P] = 0 THEN "NoTokensVested"
    ELSE IF tokens_claimed[P] >= tokens_purchased[P] THEN "AllTokensClaimed"
    ELSE "Ok"

\* C13: in every reachable state a claim for a purchaser, made directly by a
\* purchaser that has designated no token or by the account ownerOf reports,
\* returns the error of the first precondition that fails in the order
\* NotInitialized, VestingNotEnabled, NoTokensVested, AllTokensClaimed; in
\* particular claim_tokens returns NotInitialized before init.
C13_PreconditionOrder ==
    \A P \in Accounts, r \in TransferResults :
        ClaimPreconditions(P) # "Ok"
        => /\ nft_claim_token_id[P] = 0
                => claim_tokens_result(P, r) = ClaimPreconditions(P)
           /\ \A c \in Accounts :
                claim_tokens_by_nft_result(c, P, c, r) = ClaimPreconditions(P)

\* unitsClaimed after a single claim at the current time, before the full
\* unlock, on the record of P as the purchase left it (nothing claimed, so the
\* elapsed time is counted from the purchase).
SingleClaim(P) ==
    MulMod(SubMod(now, tokens_purchased_at[P]), tokens_per_second_to_claim(P))

\* C14: a claim for P that returns Ok at t2 < purchaseTimestamp +
\* vestingSeconds, after earlier claims for P (the last one at t1 =
\* lastClaimTimestamp < t2), leaves unitsClaimed within one unit of what a
\* single claim at t2 leaves.
C14_SplitClaimWithinOneUnit ==
    [][\A P \in Accounts :
         (ClaimedFor(P) /\ now < last_token_claim_at(P))
         => /\ tokens_claimed'[P] - SingleClaim(P) <= 1
            /\ SingleClaim(P) - tokens_claimed'[P] <= 1]_vars

\* C14 witness: a second claim before the full unlock has added units to
\* those of an earlier claim.
C14_Witness ==
    \E P \in Accounts :
        /\ last.op \in ClaimOps /\ last.user = P
        /\ 0 < last.amount /\ last.amount < tokens_claimed[P]
        /\ tokens_claimed[P] < tokens_purchased[P]
        /\ tokens_purchased_at[P] < tokens_claimed_at[P]
        /\ tokens_claimed_at[P] = now
        /\ now < last_token_claim_at(P)

\* C15: claim_unlocked_tokens returns TokensAreVested in a sale with
\* vestingSeconds > 0; with vestingSeconds = 0 it returns NoTokensPurchased to
\* an account with unitsPurchased = 0 and nothing claimed, AllTokensClaimed to
\* an account that has claimed, and a call that returns Ok is the first of
\* the account, sends exactly unitsPurchased to the caller and sets
\* unitsClaimed = unitsPurchased; with vestingSeconds = 0 claim_tokens and
\* claim_tokens_by_nft return VestingNotEnabled or OnlyOwner and release
\* nothing.
C15_UnlockedClaimIsOneTime ==
    /\ [](\A a \in Accounts, r \in TransferResults :
            /\ total_vesting_length_in_seconds > 0
                => claim_unlocked_tokens_result(a, r) = "TokensAreVested"
            /\ (total_vesting_length_in_seconds = 0 /\ tokens_purchased[a] = 0)
                => claim_unlocked_tokens_result(a, r) = "NoTokensPurchased"
            /\ (total_vesting_length_in_seconds = 0 /\ paid_out[a] > 0)
                => /\ claim_unlocked_tokens_result(a, r) = "AllTokensClaimed"
                   /\ tokens_claimed[a] = tokens_purchased[a]
                   /\ paid_out[a] = tokens_purchased[a]
            /\ (total_vesting_length_in_seconds = 0 /\ tokens_purchased[a] > 0
                    /\ paid_out[a] = 0)
                => claim_unlocked_tokens_result(a, "true") = "Ok"
            /\ total_vesting_length_in_seconds = 0
                => /\ claim_tokens_result(a, r) = "VestingNotEnabled"
                   /\ \A P \in Accounts, answer \in OwnerOfResults :
                        claim_tokens_by_nft_result(a, P, answer, r)
                            \in {"VestingNotEnabled", "OnlyOwner"})
    /\ [][(Returned("claim_unlocked_tokens")
                => /\ total_vesting_length_in_seconds = 0
                   /\ tokens_purchased[last'.sender] > 0
                   /\ tokens_claimed[last'.sender] = 0
                   /\ paid_out[last'.sender] = 0
                   /\ last'.recipient = last'.sender
                   /\ last'.amount = tokens_purchased[last'.sender]
                   /\ tokens_claimed'[last'.sender] = tokens_purchased[last'.sender]
                   /\ paid_out'[last'.sender] = tokens_purchased[last'.sender])
           /\ (total_vesting_length_in_seconds = 0
                => ~(\E op \in ClaimOps : Returned(op)))]_vars

\* C15 witness: in a sale without vesting an account has received all its
\* units from claim_unlocked_tokens, and its next call is refused.
C15_Witness ==
    \E a \in Accounts :
        /\ total_vesting_length_in_seconds = 0
        /\ last.op = "claim_unlocked_tokens" /\ last.sender = a
        /\ last.amount = tokens_purchased[a] /\ last.amount > 0
        /\ tokens_claimed[a] = tokens_purchased[a]
        /\ claim_unlocked_tokens_result(a, "true") = "AllTokensClaimed"

\* C16: in every reachable state an account with a designated token is in a
\* vesting sale and has purchased; enable_tokenized_vesting by an account
\* without a designated token returns VestingNotEnabled when vestingSeconds =
\* 0, NoTokensVested when the account has purchased nothing,
\* ZeroValueArgumentInjected for token id 0 and AllTokensClaimed when
\* unitsClaimed = unitsPurchased, whichever of these comes first, and Ok
\* otherwise; the designated token id stays 0 except in a call that returns
\* Ok, which sets it to the id passed.
C16_DelegationNeedsVestedPurchase ==
    /\ [](\A a \in Accounts :
            nft_claim_token_id[a] # 0
            => (total_vesting_length_in_seconds > 0 /\ tokens_purchased[a] > 0))
    /\ [](\A a \in Accounts, token_id \in TokenIds :
            nft_claim_token_id[a] = 0
            => enable_tokenized_vesting_result(a, token_id) =
                 (IF total_vesting_length_in_seconds = 0 THEN "VestingNotEnabled"
                  ELSE IF tokens_purchased[a] = 0 THEN "NoTokensVested"
                  ELSE IF token_id = 0 THEN "ZeroValueArgumentInjected"
                  ELSE IF tokens_claimed[a] = tokens_purchased[a]
                       THEN "AllTokensClaimed"
                  ELSE "Ok"))
    /\ [][\A a \in Accounts :
            (nft_claim_token_id[a] = 0 /\ nft_claim_token_id'[a] # 0)
            => /\ Returned("enable_tokenized_vesting")
               /\ last'.sender = a
               /\ nft_claim_token_id'[a] = last'.arg
               /\ enable_tokenized_vesting_result(a, last'.arg) = "Ok"]_vars

\* C16 witness: an account has designated a token, and another account that
\* has purchased nothing is refused.
C16_Witness ==
    \E a \in Accounts, b \in Accounts, token_id \in TokenIds :
        /\ last.op = "enable_tokenized_vesting" /\ last.sender = a
        /\ nft_claim_token_id[a] = last.arg /\ last.arg # 0
        /\ tokens_purchased[b] = 0 /\ token_id # 0
        /\ enable_tokenized_vesting_result(b, token_id) = "NoTokensVested"

\* The sum of unitsPurchased over the accounts of S.
RECURSIVE SumPurchased(_)
SumPurchased(S) ==
    IF S = {} THEN 0
    ELSE LET a == CHOOSE x \in S : TRUE
         IN tokens_purchased[a] + SumPurchased(S \ {a})

\* C17: in every reachable state totalUnitsPurchased is the sum of
\* unitsPurchased over all accounts, and no step decreases
\* totalUnitsPurchased.
C17_TotalIsSumAndMonotone ==
    /\ [](total_tokens_purchased = SumPurchased(Accounts))
    /\ [][total_tokens_purchased' >= total_tokens_purchased]_vars

\* C18: no step (the clock only moves forward) decreases unitsClaimed or
\* lastClaimTimestamp of an account.
C18_ClaimedNeverDecreases ==
    [][\A a \in Accounts :
         /\ tokens_claimed'[a] >= tokens_claimed[a]
         /\ tokens_claimed_at'[a] >= tokens_claimed_at[a]
         /\ now' >= now]_vars

\* C18 witness: a later claim has added units to those of an earlier claim
\* and moved the last claim time forward.
C18_Witness ==
    \E P \in Accounts :
        /\ last.op \in ClaimOps /\ last.user = P
        /\ last.amount > 0
        /\ tokens_claimed[P] > last.amount
        /\ paid_out[P] = tokens_claimed[P]
        /\ \E t1 \in Times :
            tokens_purchased_at[P] < t1 /\ t1 < tokens_claimed_at[P]

\* C19: once init has returned Ok, every init call returns
\* AlreadyInitialized, whoever makes it and whatever its arguments (accepted
\* or rejected ones), and no step changes a field of the configuration: the
\* unit price, the total offered, the vesting length, the three contract
\* addresses, the owner and the initialized flag.
C19_InitOnceConfigFrozen ==
    /\ [](initialized
            => \A call \in Accounts \X (GoodInitArgs \cup BadInitArgs) :
                 init_result(call[2][1], call[2][2], call[2][3], call[2][4],
                             call[2][5], call[2][6]) = "AlreadyInitialized")
    /\ [][initialized
            => /\ ~Returned("init")
               /\ initialized'
               /\ owner' = owner
               /\ token' = token
               /\ currency' = currency
               /\ nft_claim' = nft_claim
               /\ price_per_token' = price_per_token
               /\ total_tokens_available' = total_tokens_available
               /\ total_vesting_length_in_seconds' =
                      total_vesting_length_in_seconds]_vars

\* C19 witness: calls of accounts other than the owner have returned Ok
\* after init, and the configuration is the one init stored.
C19_Witness ==
    /\ initialized
    /\ last.op \in ClaimOps
    /\ last.sender # owner
    /\ \E args \in GoodInitArgs :
        /\ <<token, currency, price_per_token, total_tokens_available,
              total_vesting_length_in_seconds, nft_claim>> = args
        /\ init_result(args[1], args[2], args[3], args[4], args[5], args[6]) =
               "AlreadyInitialized"

\* <<q, r>> with a * b = q * c + r and 0 <= r < c, for naturals a, b and
\* c > 0, by doubling (the product a * b itself may exceed the integers of
\* the model checker).
RECURSIVE QuotRem(_, _, _)
QuotRem(a, b, c) ==
    IF b = 0 THEN <<0, 0>>
    ELSE LET h == QuotRem(a, b \div 2, c)
             q == 2 * h[1] + (IF b % 2 = 1 THEN a \div c ELSE 0)
             r == 2 * h[2] + (IF b % 2 = 1 THEN a % c ELSE 0)
         IN <<q + (r \div c), r % c>>

\* The linear schedule: floor(unitsPurchased * (t - purchaseTimestamp) /
\* vestingSeconds).
LinearSchedule(P, t) ==
    QuotRem(tokens_purchased[P], t - tokens_purchased_at[P],
            total_vesting_length_in_seconds)[1]

\* C20: in every reachable state of a vesting sale, lastClaimTimestamp of an
\* account is at most purchaseTimestamp + vestingSeconds, and an account
\* whose last claim happened at t, purchaseTimestamp <= t <
\* purchaseTimestamp + vestingSeconds, has unitsClaimed at most
\* floor(unitsPurchased * (t - purchaseTimestamp) / vestingSeconds).
C20_NeverAheadOfSchedule ==
    \A P \in Accounts :
        total_vesting_length_in_seconds > 0
        => /\ tokens_claimed_at[P] <=
                  tokens_purchased_at[P] + total_vesting_length_in_seconds
           /\ (/\ tokens_purchased_at[P] <= tokens_claimed_at[P]
               /\ tokens_claimed_at[P] <
                      tokens_purchased_at[P] + total_vesting_length_in_seconds)
              => tokens_claimed[P] <= LinearSchedule(P, tokens_claimed_at[P])

\* C20 witness: a claim before the full unlock has released units, fewer
\* than the linear schedule allows at that time.
C20_Witness ==
    \E P \in Accounts :
        /\ last.op \in ClaimOps /\ last.user = P
        /\ tokens_claimed_at[P] = now
        /\ now < tokens_purchased_at[P] + total_vesting_length_in_seconds
        /\ 0 < tokens_claimed[P]
        /\ tokens_claimed[P] < LinearSchedule(P, now)

\* The sum over the accounts of S of the units sent by the claims on behalf
\* of the account.
RECURSIVE SumPaidOut(_)
SumPaidOut(S) ==
    IF S = {} THEN 0
    ELSE LET a == CHOOSE x \in S : TRUE
         IN paid_out[a] + SumPaidOut(S \ {a})

\* C21: in every reachable state the units sent by successful asset
\* transfers on behalf of a purchaser equal the purchaser's unitsClaimed, and
\* the units sent on behalf of all purchasers together are at most
\* totalUnitsPurchased.
C21_PaidOutIsClaimed ==
    /\ \A P \in Accounts : paid_out[P] = tokens_claimed[P]
    /\ SumPaidOut(Accounts) <= total_tokens_purchased

====
